---------------------------- MODULE Spec2Model ----------------------------
(***************************************************************************)
(* Model of the GEE indexing backend:                                      *)
(*   - compute_derivatives            (controllers/satellite_controller.py)*)
(*   - the /api/composite and /api/timeseries handlers   (same file)       *)
(*   - validate_date_range            (utils/helpers.py)                   *)
(*   - init_earth_engine              (config/gee.py)                      *)
(*                                                                         *)
(* Numbers.  Metric values are fixed-point integers in units of 10^-6, so  *)
(* that round(x, 4) and round(x, 5) are real roundings (to multiples of    *)
(* 100 and of 10).  A nullable number is a sequence: <<>> is Python's None *)
(* and <<n>> is the number n.                                              *)
(***************************************************************************)
EXTENDS Integers, Sequences, FiniteSets, TLC

VARIABLES
    \* ---- compute_derivatives, called on its own ----
    values,        \* the argument list
    first,         \* the first list returned
    second,        \* the second list returned
    derivStatus,   \* "pending" | "returned" | "raised"
    \* ---- one HTTP request against the controller ----
    route,         \* "composite" | "timeseries" | "none"
    request,       \* the request: method and JSON body
    now,           \* datetime.datetime.now(), as a date string
    pc,            \* position of the handler
    local,         \* the handler's local variables kept across external calls
    extCalls,      \* the external-service calls made so far, in order
    responses,     \* the responses returned so far, in order
    \* ---- init_earth_engine ----
    geeInitialized,  \* _gee_initialized
    geeLock,         \* holder of _gee_lock, 0 when free
    tpc,             \* per thread: position inside init_earth_engine
    callsLeft,       \* per thread: calls it may still start
    startedAfterInit,\* per thread: _gee_initialized was True when the call started
    acquiredInCall,  \* per thread: the current call has acquired the lock
    initializedInCall,\* per thread: the current call has run ee.Initialize
    initAttempts,    \* number of ee.Initialize calls started
    initSuccesses,   \* number of ee.Initialize calls that completed successfully
    initErrors       \* number of calls that ended raising RuntimeError

derivVars == <<values, first, second, derivStatus>>
httpVars  == <<route, request, now, pc, local, extCalls, responses>>
geeVars   == <<geeInitialized, geeLock, tpc, callsLeft, startedAfterInit,
               acquiredInCall, initializedInCall, initAttempts, initSuccesses,
               initErrors>>
vars      == <<derivVars, httpVars, geeVars>>

----------------------------------------------------------------------------
(* Bounds *)
MaxLen == 4        \* longest list handed to compute_derivatives
MaxVal == 2        \* list entries range over 0..MaxVal and None
MaxObs == 3        \* most features the external service returns
MaxObsHttp == 1    \* the same, where the requests are what varies
NThreads == 2      \* threads calling init_earth_engine
MaxCalls == 2      \* calls to init_earth_engine per thread

----------------------------------------------------------------------------
(* Nullable numbers and Python's arithmetic on them *)
None == <<>>
Some(n) == <<n>>
IsNone(x) == x = None
Val(x) == x[1]

\* a - b on Python operands: TypeError when an operand is None
SubRaises(a, b) == IsNone(a) \/ IsNone(b)
Sub(a, b) == Some(Val(a) - Val(b))

----------------------------------------------------------------------------
(* compute_derivatives *)

\* values[i] - values[i - 1]  (1-based here, 0-based in the source)
FirstDiffSwapped(vals, i) == Sub(vals[i - 1], vals[i])
FirstDiff(vals, i) == Sub(vals[i], vals[i - 1])

\* first[i] - first[i - 1]
SecondDiff(fst, i) == Sub(fst[i], fst[i - 1])

\* for i in range(1, len(values)): first.append(...)
RECURSIVE FirstLoop(_, _, _)
FirstLoop(vals, i, fst) ==
    IF i > Len(vals) THEN [raised |-> FALSE, list |-> fst]
    ELSE IF SubRaises(vals[i], vals[i - 1]) THEN [raised |-> TRUE, list |-> fst]
    ELSE FirstLoop(vals, i + 1, Append(fst, FirstDiff(vals, i)))

\* for i in range(2, len(values)): second.append(...)
RECURSIVE SecondLoop(_, _, _, _)
SecondLoop(vals, fst, i, snd) ==
    IF i > Len(vals) THEN [raised |-> FALSE, list |-> snd]
    ELSE IF SubRaises(fst[i], fst[i - 1]) THEN [raised |-> TRUE, list |-> snd]
    ELSE SecondLoop(vals, fst, i + 1, Append(snd, SecondDiff(fst, i)))

\* first = [None]; loop; second = [None, None]; loop; return first, second
compute_derivatives(vals) ==
    LET f == FirstLoop(vals, 2, <<None>>)
    IN  IF f.raised THEN [raised |-> TRUE, first |-> <<>>, second |-> <<>>]
        ELSE LET s == SecondLoop(vals, f.list, 3, <<None, None>>)
             IN IF s.raised THEN [raised |-> TRUE, first |-> <<>>, second |-> <<>>]
                ELSE [raised |-> FALSE, first |-> f.list, second |-> s.list]

----------------------------------------------------------------------------
(* Idle values of the three parts; each specification moves one part *)
NoJson == [k |-> "absent", form |-> "", v |-> <<>>, s |-> ""]
NoPoint == [k |-> "absent", lat |-> NoJson, lng |-> NoJson]
NoRequest == [method |-> "", point |-> NoPoint, geometry |-> NoJson,
              start_date |-> NoJson, end_date |-> NoJson, max_cloud |-> NoJson,
              index_type |-> NoJson, scale |-> NoJson]
NoLocal == [index_type |-> "", count |-> 0]

Threads == 1..NThreads

DerivIdle ==
    /\ values = <<>> /\ first = <<>> /\ second = <<>> /\ derivStatus = "idle"
HttpIdle ==
    /\ route = "none" /\ request = NoRequest /\ now = <<>> /\ pc = "idle"
    /\ local = NoLocal /\ extCalls = <<>> /\ responses = <<>>
GeeIdle ==
    /\ geeInitialized = FALSE /\ geeLock = 0
    /\ tpc = [t \in Threads |-> "idle"]
    /\ callsLeft = [t \in Threads |-> 0]
    /\ startedAfterInit = [t \in Threads |-> FALSE]
    /\ acquiredInCall = [t \in Threads |-> FALSE]
    /\ initializedInCall = [t \in Threads |-> FALSE]
    /\ initAttempts = 0 /\ initSuccesses = 0 /\ initErrors = 0

----------------------------------------------------------------------------
(* JSON values of a request body.  k is the JSON kind ("absent" when the   *)
(* key is not in the body); a string is free text (s), a decimal numeral   *)
(* (v = <<n>>) or text of the shape Y-M-D (v = <<y, m, d>>).               *)
Absent == NoJson
Null == [k |-> "null", form |-> "", v |-> <<>>, s |-> ""]
Num(n) == [k |-> "num", form |-> "", v |-> <<n>>, s |-> ""]
Text(t) == [k |-> "str", form |-> "text", v |-> <<>>, s |-> t]
NumeralStr(n) == [k |-> "str", form |-> "numeral", v |-> <<n>>, s |-> ""]
DateStr(y, m, d) == [k |-> "str", form |-> "date", v |-> <<y, m, d>>, s |-> ""]
Obj(form) == [k |-> "obj", form |-> form, v |-> <<>>, s |-> ""]

\* dict.get(key, default)
Get(j, default) == IF j.k = "absent" THEN default ELSE j

\* Python exceptions; str(e) is the message
NoError == [type |-> "", msg |-> ""]
Exc(type, msg) == [type |-> type, msg |-> msg]
StrOf(e) == e.msg

\* float(x)
FloatOf(x) ==
    IF x.k = "num" THEN [err |-> NoError, val |-> x.v[1]]
    ELSE IF x.k = "str" THEN
        IF x.form = "numeral" THEN [err |-> NoError, val |-> x.v[1]]
        ELSE [err |-> Exc("ValueError", "could not convert string to float"), val |-> 0]
    ELSE [err |-> Exc("TypeError", "float() argument must be a string or a real number"),
          val |-> 0]

\* int(x)
IntOf(x) ==
    IF x.k = "num" THEN [err |-> NoError, val |-> x.v[1]]
    ELSE IF x.k = "str" THEN
        IF x.form = "numeral" THEN [err |-> NoError, val |-> x.v[1]]
        ELSE [err |-> Exc("ValueError", "invalid literal for int() with base 10"), val |-> 0]
    ELSE [err |-> Exc("TypeError", "int() argument must be a string or a real number"),
          val |-> 0]

\* x.upper(): only str has the method
Upper(t) ==
    CASE t = "ndvi" -> "NDVI"
      [] t = "ndwi" -> "NDWI"
      [] t = "nsmi" -> "NSMI"
      [] t = "true_color" -> "TRUE_COLOR"
      [] t = "invalid" -> "INVALID"
      [] OTHER -> t
UpperOf(x) ==
    IF x.k = "str" THEN [err |-> NoError, val |-> Upper(x.s)]
    ELSE [err |-> Exc("AttributeError", "object has no attribute 'upper'"), val |-> ""]

\* bool(x), as `not geometry` uses it
Truthy(x) ==
    CASE x.k \in {"absent", "null"} -> FALSE
      [] x.k = "obj" -> x.form # "empty"
      [] x.k = "num" -> x.v[1] # 0
      [] OTHER -> x.form # "text" \/ x.s # ""

----------------------------------------------------------------------------
(* utils/helpers.py: validate_date_range *)

IsLeap(y) == (y % 4 = 0 /\ y % 100 # 0) \/ y % 400 = 0
DaysInMonth(y, m) ==
    IF m = 2 THEN (IF IsLeap(y) THEN 29 ELSE 28)
    ELSE IF m \in {4, 6, 9, 11} THEN 30 ELSE 31

\* datetime.datetime.strptime(x, "%Y-%m-%d")
Strptime(x) ==
    IF x.k # "str" THEN
        [err |-> Exc("TypeError", "strptime() argument 1 must be str"), date |-> <<>>]
    ELSE IF /\ x.form = "date"
            /\ x.v[1] \in 1..9999
            /\ x.v[2] \in 1..12
            /\ x.v[3] \in 1..DaysInMonth(x.v[1], x.v[2])
         THEN [err |-> NoError, date |-> x.v]
    ELSE [err |-> Exc("ValueError", "time data does not match format '%Y-%m-%d'"),
          date |-> <<>>]

\* s < e on datetimes
DateLessOrEqual(a, b) ==
    \/ a[1] < b[1]
    \/ a[1] = b[1] /\ a[2] < b[2]
    \/ a[1] = b[1] /\ a[2] = b[2] /\ a[3] <= b[3]
DateLess(a, b) ==
    \/ a[1] < b[1]
    \/ a[1] = b[1] /\ a[2] < b[2]
    \/ a[1] = b[1] /\ a[2] = b[2] /\ a[3] < b[3]

\* try: s = strptime(start); e = strptime(end); return s < e
\* except ValueError: return False      (a TypeError propagates)
validate_date_range(start_date, end_date) ==
    LET ps == Strptime(start_date)
        pe == Strptime(end_date)
    IN  IF ps.err.type = "TypeError" THEN [err |-> ps.err, ok |-> FALSE]
        ELSE IF ps.err.type = "ValueError" THEN [err |-> NoError, ok |-> FALSE]
        ELSE IF pe.err.type = "TypeError" THEN [err |-> pe.err, ok |-> FALSE]
        ELSE IF pe.err.type = "ValueError" THEN [err |-> NoError, ok |-> FALSE]
        ELSE [err |-> NoError, ok |-> DateLess(ps.date, pe.date)]

\* datetime.datetime.now().strftime("%Y-%m-%d")
Strftime(d) == DateStr(d[1], d[2], d[3])

----------------------------------------------------------------------------
(* Responses: jsonify(body), status *)
NoBody == [success |-> "absent", error |-> "", data |-> <<>>, count |-> -1,
           index_type |-> "", image_count |-> -1]
Response(status, body) == [status |-> status, body |-> body]

\* return jsonify({}), 200
Preflight == Response(200, NoBody)
\* return jsonify({"success": False, "error": msg}), status
JsonError(status, msg) ==
    Response(status, [NoBody EXCEPT !.success = "false", !.error = msg])
\* except Exception as e: return jsonify({"success": False, "error": str(e)}), 500
ExceptResponseMasked(e) == JsonError(500, "Internal Server Error")
ExceptResponse(e) == JsonError(500, StrOf(e))

\* what the part of a handler before its first external call decides
Return(resp) == [proceed |-> FALSE, resp |-> resp, index_type |-> ""]
Proceed(index_type) == [proceed |-> TRUE, resp |-> Preflight, index_type |-> index_type]

----------------------------------------------------------------------------
(* /api/composite *)

DefaultStartDate == DateStr(2017, 6, 23)
IndexTypes == {"NDVI", "NDWI", "NSMI", "TRUE_COLOR"}

\* Lines 37-62: everything before collection.size().getInfo().  ee.Geometry
\* raises locally on GeoJSON it cannot read; the collection is built lazily.
CompositeEntry(req, clock) ==
    IF req.method = "OPTIONS" THEN Return(Preflight)
    ELSE
    LET geometry   == Get(req.geometry, Null)
        start_date == Get(req.start_date, DefaultStartDate)
        end_date   == Get(req.end_date, Strftime(clock))
        max_cloud  == FloatOf(Get(req.max_cloud, Num(30)))
        index_type == UpperOf(Get(req.index_type, Text("NDVI")))
        scale      == IntOf(Get(req.scale, Num(10)))
        valid      == validate_date_range(start_date, end_date)
    IN  IF max_cloud.err # NoError THEN Return(ExceptResponse(max_cloud.err))
        ELSE IF index_type.err # NoError THEN Return(ExceptResponse(index_type.err))
        ELSE IF scale.err # NoError THEN Return(ExceptResponse(scale.err))
        ELSE IF ~Truthy(geometry) THEN Return(JsonError(400, "Missing geometry"))
        ELSE IF valid.err # NoError THEN Return(ExceptResponse(valid.err))
        ELSE IF ~valid.ok THEN Return(JsonError(400, "Invalid date range"))
        ELSE IF ~(geometry.k = "obj" /\ geometry.form = "geojson")
             THEN Return(ExceptResponse(Exc("EEException", "Invalid GeoJSON geometry.")))
        ELSE Proceed(index_type.val)

\* an external call and what it came back with
Call(name, kind, err, count, features) ==
    [call |-> name, kind |-> kind, err |-> err, count |-> count, features |-> features]
Failed(name, e) == Call(name, "error", e, 0, <<>>)

\* failures of the external imagery service
ExtErrors == {Exc("EEException", "Quota exceeded"),
              Exc("ConnectionError", "Connection reset by peer")}

Respond(resp) ==
    /\ responses' = Append(responses, resp)
    /\ pc' = "done"

CompositeBegin ==
    /\ pc = "recv" /\ route = "composite"
    /\ LET e == CompositeEntry(request, now)
       IN IF e.proceed
          THEN /\ pc' = "co_size"
               /\ local' = [local EXCEPT !.index_type = e.index_type]
               /\ UNCHANGED responses
          ELSE /\ Respond(e.resp)
               /\ UNCHANGED local
    /\ UNCHANGED <<route, request, now, extCalls, derivVars, geeVars>>

\* Lines 64-83: count = collection.size().getInfo(), the empty check and the
\* index_type branch (median, clip and select only build the query).
CompositeSize ==
    /\ pc = "co_size"
    /\ \/ \E e \in ExtErrors :
            /\ extCalls' = Append(extCalls, Failed("size.getInfo", e))
            /\ Respond(ExceptResponse(e))
            /\ UNCHANGED local
       \/ \E count \in 0..MaxObs :
            /\ extCalls' = Append(extCalls, Call("size.getInfo", "count", NoError, count, <<>>))
            /\ IF count = 0
               THEN Respond(JsonError(404, "No images found")) /\ UNCHANGED local
               ELSE IF local.index_type \notin IndexTypes
               THEN Respond(JsonError(400, "Invalid index_type")) /\ UNCHANGED local
               ELSE /\ pc' = "co_mapid"
                    /\ local' = [local EXCEPT !.count = count]
                    /\ UNCHANGED responses
    /\ UNCHANGED <<route, request, now, derivVars, geeVars>>

\* Line 85: map_id = ee.Image(index_image).getMapId(vis_params)
CompositeMapId ==
    /\ pc = "co_mapid"
    /\ \/ \E e \in ExtErrors :
            /\ extCalls' = Append(extCalls, Failed("getMapId", e))
            /\ Respond(ExceptResponse(e))
       \/ /\ extCalls' = Append(extCalls, Call("getMapId", "ok", NoError, 0, <<>>))
          /\ pc' = "co_download"
          /\ UNCHANGED responses
    /\ UNCHANGED <<route, request, now, local, derivVars, geeVars>>

\* Lines 86-102: getDownloadURL and the success body
CompositeDownload ==
    /\ pc = "co_download"
    /\ \/ \E e \in ExtErrors :
            /\ extCalls' = Append(extCalls, Failed("getDownloadURL", e))
            /\ Respond(ExceptResponse(e))
       \/ /\ extCalls' = Append(extCalls, Call("getDownloadURL", "ok", NoError, 0, <<>>))
          /\ Respond(Response(200, [NoBody EXCEPT !.success = "true",
                                                  !.index_type = local.index_type,
                                                  !.image_count = local.count]))
    /\ UNCHANGED <<route, request, now, local, derivVars, geeVars>>

----------------------------------------------------------------------------
(* /api/timeseries *)

\* Lines 125-157: everything before FeatureCollection(...).getInfo()
TimeseriesEntry(req, clock) ==
    IF req.method = "OPTIONS" THEN Return(Preflight)
    ELSE
    \* point = data.get("point", {}); point.get("lat") needs a dict
    LET point == IF req.point.k = "absent"
                 THEN [k |-> "obj", lat |-> Absent, lng |-> Absent] ELSE req.point
    IN  IF point.k # "obj"
        THEN Return(ExceptResponse(Exc("AttributeError", "object has no attribute 'get'")))
        ELSE
    LET lat        == Get(point.lat, Null)
        lng        == Get(point.lng, Null)
        start_date == Get(req.start_date, DefaultStartDate)
        end_date   == Get(req.end_date, Strftime(clock))
        max_cloud  == FloatOf(Get(req.max_cloud, Num(30)))
        valid      == validate_date_range(start_date, end_date)
    IN  IF lat.k = "null" \/ lng.k = "null"
        THEN Return(JsonError(400, "Missing latitude or longitude"))
        ELSE IF FloatOf(lat).err # NoError THEN Return(ExceptResponse(FloatOf(lat).err))
        ELSE IF FloatOf(lng).err # NoError THEN Return(ExceptResponse(FloatOf(lng).err))
        ELSE IF max_cloud.err # NoError THEN Return(ExceptResponse(max_cloud.err))
        ELSE IF valid.err # NoError THEN Return(ExceptResponse(valid.err))
        ELSE IF ~valid.ok THEN Return(JsonError(400, "Invalid date range"))
        ELSE Proceed("")

\* round(x, ndigits) on fixed-point x: to the nearest multiple of unit, ties to even
RoundTo(x, unit) ==
    LET q == x \div unit
        r == x % unit
    IN  IF 2 * r < unit THEN q * unit
        ELSE IF 2 * r > unit THEN (q + 1) * unit
        ELSE IF q % 2 = 0 THEN q * unit ELSE (q + 1) * unit
Round4(x) == RoundTo(x, 100)
Round5(x) == RoundTo(x, 10)

FloatTypeError == Exc("TypeError", "float() argument must be a string or a real number")

\* Lines 177-187: the list comprehension over fc["features"]
RECURSIVE BuildResults(_, _, _)
BuildResults(features, i, acc) ==
    IF i > Len(features) THEN [err |-> NoError, results |-> acc]
    ELSE LET p == features[i] IN
         IF IsNone(p.NDVI) THEN BuildResults(features, i + 1, acc)
         ELSE IF IsNone(p.NDWI) \/ IsNone(p.NSMI) \/ IsNone(p.cloud)
              THEN [err |-> FloatTypeError, results |-> <<>>]
         ELSE BuildResults(features, i + 1, Append(acc,
                [date |-> p.date,
                 NDVI |-> Some(Round4(Val(p.NDVI))),
                 NDWI |-> Some(Round4(Val(p.NDWI))),
                 NSMI |-> Some(Round4(Val(p.NSMI))),
                 cloud_cover |-> p.cloud,
                 NDVI_d1 |-> None, NDVI_d2 |-> None,
                 NDWI_d1 |-> None, NDWI_d2 |-> None,
                 NSMI_d1 |-> None, NSMI_d2 |-> None]))

\* Line 189: results.sort(key=lambda x: x["date"]), a stable sort on the
\* date string (zero-padded, so it compares as year, month, day)
RECURSIVE InsertByDate(_, _)
InsertByDate(sorted, r) ==
    IF sorted = <<>> THEN <<r>>
    ELSE IF DateLessOrEqual(sorted[Len(sorted)].date, r.date) THEN Append(sorted, r)
    ELSE Append(InsertByDate(SubSeq(sorted, 1, Len(sorted) - 1), r), sorted[Len(sorted)])
RECURSIVE SortFrom(_, _, _)
SortFrom(rs, i, acc) ==
    IF i > Len(rs) THEN acc ELSE SortFrom(rs, i + 1, InsertByDate(acc, rs[i]))
SortByDateSkipped(rs) == rs
SortByDate(rs) == SortFrom(rs, 1, <<>>)

\* None if d is None else round(d, 5)
RoundOrNone(d) == IF IsNone(d) THEN None ELSE Some(Round5(Val(d)))

\* Lines 192-209: the three derivative pairs and the loop attaching them;
\* d[i] past the end of a list is an IndexError
Attach(results) ==
    LET col(m) == [i \in 1..Len(results) |-> results[i][m]]
        ndvi == compute_derivatives(col("NDVI"))
        ndwi == compute_derivatives(col("NDWI"))
        nsmi == compute_derivatives(col("NSMI"))
    IN  IF ndvi.raised \/ ndwi.raised \/ nsmi.raised
        THEN [err |-> Exc("TypeError", "unsupported operand type(s) for -"), results |-> <<>>]
        ELSE IF \E d \in {ndvi.first, ndvi.second, ndwi.first, ndwi.second,
                          nsmi.first, nsmi.second} : Len(d) < Len(results)
        THEN [err |-> Exc("IndexError", "list index out of range"), results |-> <<>>]
        ELSE [err |-> NoError,
              results |-> [i \in 1..Len(results) |->
                  [results[i] EXCEPT !.NDVI_d1 = RoundOrNone(ndvi.first[i]),
                                     !.NDVI_d2 = RoundOrNone(ndvi.second[i]),
                                     !.NDWI_d1 = RoundOrNone(ndwi.first[i]),
                                     !.NDWI_d2 = RoundOrNone(ndwi.second[i]),
                                     !.NSMI_d1 = RoundOrNone(nsmi.first[i]),
                                     !.NSMI_d2 = RoundOrNone(nsmi.second[i])]]]

\* Lines 176-215 on the features the service returned
TimeseriesBody(features) ==
    LET built == BuildResults(features, 1, <<>>)
    IN  IF built.err # NoError THEN ExceptResponse(built.err)
        ELSE LET attached == Attach(SortByDate(built.results))
             IN IF attached.err # NoError THEN ExceptResponse(attached.err)
                ELSE Response(200, [NoBody EXCEPT !.success = "true",
                                                  !.data = attached.results,
                                                  !.count = Len(attached.results)])

TimeseriesBegin ==
    /\ pc = "recv" /\ route = "timeseries"
    /\ LET e == TimeseriesEntry(request, now)
       IN IF e.proceed
          THEN pc' = "ts_fetch" /\ UNCHANGED responses
          ELSE Respond(e.resp)
    /\ UNCHANGED <<route, request, now, local, extCalls, derivVars, geeVars>>

\* Lines 174-219: fc = ee.FeatureCollection(collection.map(extract)).getInfo()
\* and everything after it
TimeseriesFetch(featureLists) ==
    /\ pc = "ts_fetch"
    /\ \/ \E e \in ExtErrors :
            /\ extCalls' = Append(extCalls, Failed("features.getInfo", e))
            /\ Respond(ExceptResponse(e))
       \/ \E features \in featureLists :
            /\ extCalls' = Append(extCalls,
                   Call("features.getInfo", "features", NoError, 0, features))
            /\ Respond(TimeseriesBody(features))
    /\ UNCHANGED <<route, request, now, local, derivVars, geeVars>>

----------------------------------------------------------------------------
(* Inputs: request bodies, the clock, and what the external service returns *)

DateInputs == {Absent, Null, Num(2024), Text("yesterday"),
               DateStr(2024, 1, 15), DateStr(2024, 3, 1), DateStr(2024, 2, 30)}
CloudInputs == {Absent, Num(20), Text("high")}
ScaleInputs == {Absent, Num(30), Text("fine")}
IndexTypeInputs == {Absent, Null, Text("NDVI"), Text("ndwi"), Text("NSMI"),
                    Text("TRUE_COLOR"), Text("INVALID")}
GeometryInputs == {Absent, Null, Obj("empty"), Obj("malformed"), Obj("geojson")}
CoordInputs == {Absent, Null, Num(17), NumeralStr(78), Text("north")}
PointInputs == {NoPoint,
                [k |-> "null", lat |-> Absent, lng |-> Absent],
                [k |-> "str", lat |-> Absent, lng |-> Absent]}
               \cup {[k |-> "obj", lat |-> la, lng |-> ln] : la, ln \in CoordInputs}
Clocks == {<<2024, 1, 15>>, <<2026, 11, 2>>}

OptionsRequest == [NoRequest EXCEPT !.method = "OPTIONS"]
CompositeRequests ==
    {OptionsRequest} \cup
    {[NoRequest EXCEPT !.method = "POST", !.geometry = g, !.start_date = sd,
                       !.end_date = ed, !.max_cloud = mc, !.index_type = it,
                       !.scale = sc] :
        g \in GeometryInputs, sd \in DateInputs, ed \in DateInputs,
        mc \in CloudInputs, it \in IndexTypeInputs, sc \in ScaleInputs}
TimeseriesRequests ==
    {OptionsRequest} \cup
    {[NoRequest EXCEPT !.method = "POST", !.point = pt, !.start_date = sd,
                       !.end_date = ed, !.max_cloud = mc] :
        pt \in PointInputs, sd \in DateInputs, ed \in DateInputs, mc \in CloudInputs}

\* One feature per image: its date and the mean of each band at the point
\* (None where every pixel is masked), in units of 10^-6.
Feature(date, ndvi, ndwi, nsmi) ==
    [date |-> date, NDVI |-> ndvi, NDWI |-> ndwi, NSMI |-> nsmi, cloud |-> Some(12000000)]
FeatureDates == {<<2023, 12, 31>>, <<2024, 1, 5>>}
MetricRows == {<<Some(100049), Some(400050), Some(199951)>>,
               <<Some(400050), Some(199951), Some(100049)>>,
               <<Some(199951), Some(100049), Some(400050)>>,
               <<None, Some(100049), Some(100049)>>,
               <<Some(100049), None, Some(199951)>>,
               <<Some(199951), Some(400050), None>>,
               <<None, None, None>>}
Features == {Feature(d, m[1], m[2], m[3]) : d \in FeatureDates, m \in MetricRows}

\* the few features the request-validation specification uses
HttpFeatures == {Feature(<<2024, 1, 5>>, Some(100049), Some(400050), Some(199951)),
                 Feature(<<2024, 1, 5>>, None, None, None),
                 Feature(<<2023, 12, 31>>, Some(199951), None, Some(100049))}

----------------------------------------------------------------------------
(* Specification SpecDeriv: compute_derivatives on every bounded input *)

RECURSIVE SeqsUpTo(_, _)
SeqsUpTo(S, n) ==
    IF n = 0 THEN {<<>>}
    ELSE LET shorter == SeqsUpTo(S, n - 1)
         IN shorter \cup {Append(q, x) : q \in {r \in shorter : Len(r) = n - 1}, x \in S}

NullableVals == {None} \cup {Some(n) : n \in 0..MaxVal}

\* the two worked examples of the specification
Example1 == <<Some(2), Some(5), Some(9), Some(9), Some(4)>>
Example2 == <<Some(1), Some(1), Some(1)>>

DerivInputs == SeqsUpTo(NullableVals, MaxLen) \cup {Example1, Example2}

InitDeriv ==
    /\ values \in DerivInputs
    /\ first = <<>> /\ second = <<>> /\ derivStatus = "pending"
    /\ HttpIdle /\ GeeIdle

ComputeDerivatives ==
    /\ derivStatus = "pending"
    /\ LET r == compute_derivatives(values)
       IN /\ derivStatus' = IF r.raised THEN "raised" ELSE "returned"
          /\ first' = r.first
          /\ second' = r.second
    /\ UNCHANGED <<values, httpVars, geeVars>>

NextDeriv == ComputeDerivatives

SpecDeriv == InitDeriv /\ [][NextDeriv]_vars

AllNumbers(vals) == \A i \in 1..Len(vals) : ~IsNone(vals[i])
Defined(list) == {i \in 1..Len(list) : ~IsNone(list[i])}

\* C1: on a list of N non-null numbers compute_derivatives returns first with
\* first[0] undefined and first[i] = values[i] - values[i-1] for i in 1..N-1,
\* and second with second[0], second[1] undefined and second[i] =
\* first[i] - first[i-1] = values[i] - 2*values[i-1] + values[i-2] for i in
\* 2..N-1; no other entry is defined (indices are 1-based below).
C1_DerivativeValues ==
    (derivStatus # "pending" /\ AllNumbers(values)) =>
        LET N == Len(values) IN
        /\ derivStatus = "returned"
        /\ Len(first) >= 1 /\ IsNone(first[1])
        /\ Len(second) >= 2 /\ IsNone(second[1]) /\ IsNone(second[2])
        /\ Defined(first) = 2..N
        /\ Defined(second) = 3..N
        /\ \A i \in 2..N : Val(first[i]) = Val(values[i]) - Val(values[i - 1])
        /\ \A i \in 3..N :
              /\ Val(second[i]) = Val(first[i]) - Val(first[i - 1])
              /\ Val(second[i]) =
                    Val(values[i]) - 2 * Val(values[i - 1]) + Val(values[i - 2])
        /\ (values = Example1 =>
              /\ first = <<None, Some(3), Some(4), Some(0), Some(-5)>>
              /\ second = <<None, None, Some(1), Some(-4), Some(-5)>>)

\* C1 witness: the worked example [2,5,9,9,4] has been computed
C1_Witness ==
    /\ derivStatus = "returned" /\ values = Example1
    /\ first = <<None, Some(3), Some(4), Some(0), Some(-5)>>
    /\ second = <<None, None, Some(1), Some(-4), Some(-5)>>

\* C2: both returned lists have exactly the length of the input, also for
\* inputs of length 0 and 1.
C2_SameLength ==
    derivStatus = "returned" =>
        (Len(first) = Len(values) /\ Len(second) = Len(values))

\* C4: an input holding a null entry does not make the call raise; every
\* difference with a null operand is undefined and the others are computed.
C4_NullPropagates ==
    (derivStatus # "pending" /\ ~AllNumbers(values)) =>
        /\ derivStatus = "returned"
        /\ \A i \in 2..Len(values) :
              first[i] = IF SubRaises(values[i], values[i - 1]) THEN None
                         ELSE Sub(values[i], values[i - 1])

----------------------------------------------------------------------------
(* Specification SpecHttp: one request to /api/composite or /api/timeseries *)

InitHttp ==
    /\ route \in {"composite", "timeseries"}
    /\ request \in (IF route = "composite" THEN CompositeRequests ELSE TimeseriesRequests)
    /\ now \in Clocks
    /\ pc = "recv" /\ local = NoLocal /\ extCalls = <<>> /\ responses = <<>>
    /\ DerivIdle /\ GeeIdle

NextHttp ==
    \/ CompositeBegin
    \/ CompositeSize
    \/ CompositeMapId
    \/ CompositeDownload
    \/ TimeseriesBegin
    \/ TimeseriesFetch(SeqsUpTo(HttpFeatures, MaxObsHttp))

SpecHttp == InitHttp /\ [][NextHttp]_vars

(* Specification SpecSeries: a valid /api/timeseries request against every *)
(* bounded answer of the external service                                  *)

SeriesRequest ==
    [NoRequest EXCEPT !.method = "POST",
                      !.point = [k |-> "obj", lat |-> Num(17), lng |-> NumeralStr(78)],
                      !.start_date = DateStr(2024, 1, 15)]

InitSeries ==
    /\ route = "timeseries"
    /\ request = SeriesRequest
    /\ now \in Clocks
    /\ pc = "recv" /\ local = NoLocal /\ extCalls = <<>> /\ responses = <<>>
    /\ DerivIdle /\ GeeIdle

NextSeries ==
    \/ TimeseriesBegin
    \/ TimeseriesFetch(SeqsUpTo(Features, MaxObs))

SpecSeries == InitSeries /\ [][NextSeries]_vars

----------------------------------------------------------------------------
(* Claims about the handlers *)

Metrics == {"NDVI", "NDWI", "NSMI"}
D1 == [NDVI |-> "NDVI_d1", NDWI |-> "NDWI_d1", NSMI |-> "NSMI_d1"]
D2 == [NDVI |-> "NDVI_d2", NDWI |-> "NDWI_d2", NSMI |-> "NSMI_d2"]

IsPost == request.method = "POST"
Answered == pc = "done" /\ Len(responses) = 1

\* the list the comprehension of lines 177-187 yields from the features the
\* last external call returned: the retained observations
Built == BuildResults(extCalls[1].features, 1, <<>>)
GotFeatures ==
    /\ route = "timeseries" /\ pc = "done"
    /\ Len(extCalls) = 1 /\ extCalls[1].kind = "features"
WithoutDerivatives(r) ==
    [r EXCEPT !.NDVI_d1 = None, !.NDVI_d2 = None, !.NDWI_d1 = None,
              !.NDWI_d2 = None, !.NSMI_d1 = None, !.NSMI_d2 = None]
Occurrences(list, x) == Cardinality({i \in 1..Len(list) : list[i] = x})

RangeCheck ==
    validate_date_range(Get(request.start_date, DefaultStartDate),
                        Get(request.end_date, Strftime(now)))

\* C5: a POST /api/timeseries whose start_date is not strictly earlier than
\* end_date (equal, later or unparseable text) is answered 400, whatever the
\* other fields hold, and no external call was made before the response.
C5_BadRangeIs400 ==
    (route = "timeseries" /\ IsPost /\ pc = "done"
        /\ RangeCheck.err = NoError /\ ~RangeCheck.ok) =>
        /\ Len(responses) = 1
        /\ responses[1].status = 400
        /\ extCalls = <<>>

\* C6: a POST /api/composite whose index_type is not NDVI, NDWI, NSMI or
\* TRUE_COLOR is answered 400 with success:false whatever the external
\* service returns (stated for requests that are valid otherwise and for an
\* external service that answers, so that the number of images is what varies).
C6_InvalidIndexTypeIs400 ==
    (route = "composite" /\ IsPost /\ pc = "done"
        /\ CompositeEntry(request, now).proceed
        /\ \A i \in 1..Len(extCalls) : extCalls[i].kind # "error"
        /\ CompositeEntry(request, now).index_type \notin IndexTypes) =>
        /\ Len(responses) = 1
        /\ responses[1].status = 400
        /\ responses[1].body.success = "false"

\* the external service answered the handler's query with an empty result set
EmptyResult ==
    /\ extCalls # <<>>
    /\ LET c == extCalls[Len(extCalls)]
       IN \/ c.call = "size.getInfo" /\ c.kind = "count" /\ c.count = 0
          \/ c.call = "features.getInfo" /\ c.kind = "features" /\ c.features = <<>>

\* C7: when the external service returns an empty result set, either handler
\* answers 404 with success:false, never a success body with no observations.
C7_EmptyResultIs404 ==
    (pc = "done" /\ EmptyResult) =>
        /\ Len(responses) = 1
        /\ responses[1].status = 404
        /\ responses[1].body.success = "false"

\* the fields other than geometry / point are acceptable to the handler
OtherFieldsValid ==
    /\ FloatOf(Get(request.max_cloud, Num(30))).err = NoError
    /\ RangeCheck.err = NoError /\ RangeCheck.ok
    /\ route = "composite" =>
          /\ UpperOf(Get(request.index_type, Text("NDVI"))).err = NoError
          /\ UpperOf(Get(request.index_type, Text("NDVI"))).val \in IndexTypes
          /\ IntOf(Get(request.scale, Num(10))).err = NoError
BadCoord(c) == c.k \in {"absent", "null"} \/ (c.k = "str" /\ c.form = "text")
BadGeometry ==
    route = "composite" /\ ~(request.geometry.k = "obj" /\ request.geometry.form = "geojson")
BadPoint ==
    /\ route = "timeseries"
    /\ \/ request.point.k # "obj"
       \/ BadCoord(request.point.lat)
       \/ BadCoord(request.point.lng)

\* C8: a request with a missing or malformed geometry (/api/composite) or a
\* missing or malformed point (/api/timeseries) is answered 400, never 500
\* (stated for requests whose other fields are valid).
C8_BadGeometryOrPointIs400 ==
    (IsPost /\ pc = "done" /\ OtherFieldsValid /\ (BadGeometry \/ BadPoint)) =>
        /\ Len(responses) = 1
        /\ responses[1].status = 400

\* C10: when an external call fails, it is the last external call of the
\* request (no retry, nothing after it), the request has exactly one
\* response, and that response is 500, success:false, error = str(failure).
C10_UpstreamFailureIs500 ==
    /\ Len(responses) <= 1
    /\ \A i \in 1..Len(extCalls) :
          extCalls[i].kind = "error" =>
              /\ i = Len(extCalls)
              /\ \A j \in 1..(i - 1) : extCalls[j].call # extCalls[i].call
              /\ pc = "done"
              /\ Len(responses) = 1
              /\ responses[1].status = 500
              /\ responses[1].body.success = "false"
              /\ responses[1].body.error = StrOf(extCalls[i].err)

\* C10 witness: getDownloadURL, the third external call of /api/composite,
\* failed with "Quota exceeded" and the one response is that 500
C10_Witness ==
    /\ route = "composite" /\ Answered
    /\ Len(extCalls) = 3
    /\ extCalls[3] = Failed("getDownloadURL", Exc("EEException", "Quota exceeded"))
    /\ responses[1] = JsonError(500, "Quota exceeded")

\* the observations in which every metric is defined
AllMetricsDefined(f) == ~IsNone(f.NDVI) /\ ~IsNone(f.NDWI) /\ ~IsNone(f.NSMI)
FullyObserved(features) == SelectSeq(features, AllMetricsDefined)

\* C11: every observation in which NDVI, NDWI or NSMI is undefined is
\* excluded from the Series and the request still succeeds with the
\* remaining observations: the response is 200 and its data holds exactly
\* the observations whose three metrics are all defined.
C11_MissingMetricsExcluded ==
    GotFeatures =>
        /\ Len(responses) = 1
        /\ responses[1].status = 200
        /\ responses[1].body.success = "true"
        /\ responses[1].body.count = Len(FullyObserved(extCalls[1].features))
        /\ \A i \in 1..Len(responses[1].body.data) :
              AllMetricsDefined(responses[1].body.data[i])

----------------------------------------------------------------------------
(* config/gee.py: init_earth_engine, called by several threads *)

\* line 20: if _gee_initialized: return
FirstCheckSeesFlag == geeInitialized
\* line 24: if _gee_initialized: return  (under the lock)
SecondCheckBlind == FALSE
SecondCheckSeesFlag == geeInitialized

\* a thread enters init_earth_engine
CallInit(t) ==
    /\ tpc[t] = "idle" /\ callsLeft[t] > 0
    /\ callsLeft' = [callsLeft EXCEPT ![t] = @ - 1]
    /\ tpc' = [tpc EXCEPT ![t] = "check1"]
    /\ startedAfterInit' = [startedAfterInit EXCEPT ![t] = geeInitialized]
    /\ acquiredInCall' = [acquiredInCall EXCEPT ![t] = FALSE]
    /\ initializedInCall' = [initializedInCall EXCEPT ![t] = FALSE]
    /\ UNCHANGED <<geeInitialized, geeLock, initAttempts, initSuccesses, initErrors,
                   derivVars, httpVars>>

\* lines 20-21
FirstCheck(t) ==
    /\ tpc[t] = "check1"
    /\ tpc' = [tpc EXCEPT ![t] = IF FirstCheckSeesFlag THEN "idle" ELSE "lock"]
    /\ UNCHANGED <<geeInitialized, geeLock, callsLeft, startedAfterInit, acquiredInCall,
                   initializedInCall, initAttempts, initSuccesses, initErrors,
                   derivVars, httpVars>>

\* line 23: with _gee_lock  (blocks while another thread holds it)
AcquireLock(t) ==
    /\ tpc[t] = "lock" /\ geeLock = 0
    /\ geeLock' = t
    /\ acquiredInCall' = [acquiredInCall EXCEPT ![t] = TRUE]
    /\ tpc' = [tpc EXCEPT ![t] = "check2"]
    /\ UNCHANGED <<geeInitialized, callsLeft, startedAfterInit, initializedInCall,
                   initAttempts, initSuccesses, initErrors, derivVars, httpVars>>

\* lines 24-25: the return leaves the with block, which releases the lock
SecondCheck(t) ==
    /\ tpc[t] = "check2"
    /\ IF SecondCheckSeesFlag
       THEN geeLock' = 0 /\ tpc' = [tpc EXCEPT ![t] = "idle"]
       ELSE tpc' = [tpc EXCEPT ![t] = "init"] /\ UNCHANGED geeLock
    /\ UNCHANGED <<geeInitialized, callsLeft, startedAfterInit, acquiredInCall,
                   initializedInCall, initAttempts, initSuccesses, initErrors,
                   derivVars, httpVars>>

\* lines 23 and 53-55: the raise leaves the with block, whose exit releases
\* the lock the thread holds
LockAfterRaiseHeld(t) == t
LockAfterRaise(t) == 0

\* lines 27-49 and 53-55: credentials and ee.Initialize; it either completes
\* or raises, and the raise leaves the with block as RuntimeError
Initialize(t) ==
    /\ tpc[t] = "init"
    /\ initAttempts' = initAttempts + 1
    /\ initializedInCall' = [initializedInCall EXCEPT ![t] = TRUE]
    /\ \/ /\ initSuccesses' = initSuccesses + 1
          /\ tpc' = [tpc EXCEPT ![t] = "setflag"]
          /\ UNCHANGED <<geeLock, initErrors>>
       \/ /\ initErrors' = initErrors + 1
          /\ geeLock' = LockAfterRaise(t)
          /\ tpc' = [tpc EXCEPT ![t] = "idle"]
          /\ UNCHANGED initSuccesses
    /\ UNCHANGED <<geeInitialized, callsLeft, startedAfterInit, acquiredInCall,
                   derivVars, httpVars>>

\* line 51: _gee_initialized = True
SetFlag(t) ==
    /\ tpc[t] = "setflag"
    /\ geeInitialized' = TRUE
    /\ tpc' = [tpc EXCEPT ![t] = "release"]
    /\ UNCHANGED <<geeLock, callsLeft, startedAfterInit, acquiredInCall,
                   initializedInCall, initAttempts, initSuccesses, initErrors,
                   derivVars, httpVars>>

\* the end of the with block
ReleaseLock(t) ==
    /\ tpc[t] = "release"
    /\ geeLock' = 0
    /\ tpc' = [tpc EXCEPT ![t] = "idle"]
    /\ UNCHANGED <<geeInitialized, callsLeft, startedAfterInit, acquiredInCall,
                   initializedInCall, initAttempts, initSuccesses, initErrors,
                   derivVars, httpVars>>

InitGee ==
    /\ geeInitialized = FALSE /\ geeLock = 0
    /\ tpc = [t \in Threads |-> "idle"]
    /\ callsLeft = [t \in Threads |-> MaxCalls]
    /\ startedAfterInit = [t \in Threads |-> FALSE]
    /\ acquiredInCall = [t \in Threads |-> FALSE]
    /\ initializedInCall = [t \in Threads |-> FALSE]
    /\ initAttempts = 0 /\ initSuccesses = 0 /\ initErrors = 0
    /\ DerivIdle /\ HttpIdle

NextGee ==
    \E t \in Threads :
        \/ CallInit(t)
        \/ FirstCheck(t)
        \/ AcquireLock(t)
        \/ SecondCheck(t)
        \/ Initialize(t)
        \/ SetFlag(t)
        \/ ReleaseLock(t)

SpecGee == InitGee /\ [][NextGee]_vars

\* C9: under every interleaving ee.Initialize completes successfully at most
\* once, and a call that started after _gee_initialized was set neither
\* acquires the lock nor initializes: it is at its first check or has returned.
C9_InitializedAtMostOnce ==
    /\ initSuccesses <= 1
    /\ \A t \in Threads :
          startedAfterInit[t] =>
              /\ ~acquiredInCall[t]
              /\ ~initializedInCall[t]
              /\ tpc[t] \in {"check1", "idle"}

\* C9 witness: one thread initialized, another raced it to the lock and
\* returned at the second check, and a later call returned at the first check
C9_Witness ==
    /\ initSuccesses = 1 /\ initErrors = 0 /\ geeInitialized /\ geeLock = 0
    /\ \E t, u \in Threads :
          /\ t # u
          /\ tpc[t] = "idle" /\ ~startedAfterInit[t]
          /\ acquiredInCall[t] /\ ~initializedInCall[t]
          /\ tpc[u] = "idle" /\ startedAfterInit[u]

\* the steps of one call once it has started; the interpreter keeps running
\* every thread that can take a step
ThreadStep(t) ==
    \/ FirstCheck(t)
    \/ AcquireLock(t)
    \/ SecondCheck(t)
    \/ Initialize(t)
    \/ SetFlag(t)
    \/ ReleaseLock(t)

SpecGeeFair == SpecGee /\ \A t \in Threads : WF_vars(ThreadStep(t))

InsideWith == {"check2", "init", "setflag", "release"}

\* the flag is set only after a successful initialization, every attempt
\* that did not succeed raised, and the lock is held only inside the with block
FailedInitState ==
    /\ geeInitialized => initSuccesses >= 1
    /\ initAttempts = initSuccesses + initErrors
    /\ geeLock # 0 => tpc[geeLock] \in InsideWith
    /\ \A t \in Threads : tpc[t] \in InsideWith => geeLock = t

\* a call returns without calling ee.Initialize only when it saw the flag set
ReturnsOnlyWhenInitialized ==
    \A t \in Threads :
        (tpc[t] \in {"check1", "check2"} /\ tpc'[t] = "idle") => geeInitialized

\* C12: when initialization raises inside init_earth_engine the call fails,
\* the flag stays false (it is true only after a success) and the lock is
\* released, so no caller waiting for the lock waits forever, and a later
\* call does not return before attempting initialization again.
C12_FailedInitCanBeRetried ==
    /\ []FailedInitState
    /\ [][ReturnsOnlyWhenInitialized]_vars
    /\ [][initErrors' # initErrors => (geeLock' = 0 /\ ~geeInitialized')]_vars
    /\ \A t \in Threads : (tpc[t] = "lock") ~> (tpc[t] = "idle")

\* C12 witness: an initialization failed, a later call initialized
\* successfully, and the lock is free again
C12_Witness ==
    /\ initErrors >= 1 /\ initSuccesses = 1 /\ initAttempts >= 2
    /\ geeInitialized /\ geeLock = 0
    /\ \A t \in Threads : tpc[t] = "idle"

=============================================================================
